---- MODULE Spec2Model ----
(***************************************************************************)
(* spotify-quick-actions: the token lifecycle of SpotifyManager            *)
(* (src/src/spotify_client.rs), the verified like/unlike engine, and the   *)
(* tasks of main (src/src/main.rs) that share the manager behind one       *)
(* tokio Mutex.                                                            *)
(*                                                                         *)
(* Remote calls (rspotify) are the environment: every call returns one of  *)
(* the outcomes its Result type allows, chosen nondeterministically.       *)
(***************************************************************************)
EXTENDS Integers, Sequences, FiniteSets, TLC

(* ------------------------------------------------------------------ *)
(* Bounds of the model and constants of the program                    *)
(* ------------------------------------------------------------------ *)

\* Handler tasks (tokio::spawn in the message dispatch) alive at once.
MaxActions == 2

\* SpotifyManager::new: with_config(config, 1000, 8)
NewDelayMs == 1000
NewMaxAttempts == 8
\* SpotifyManager::new_with_fresh_auth: with_config(config, 750, 3)
FreshDelayMs == 750
FreshMaxAttempts == 3
\* verify_track_liked: delay = verification_delay_ms + (attempt - 1) * 500
StepDelayMs == 500
\* verify_track_liked: attempt >= max_verification_attempts - 2
CorrectiveWindow == 2

(* ------------------------------------------------------------------ *)
(* Tokens                                                              *)
(* ------------------------------------------------------------------ *)

\* An Option<Token> is a sequence of length 0 (None) or 1 (Some).
None == << >>
Some(t) == << t >>

\* rspotify Token, as far as the code looks at it: access_token.is_empty(),
\* refresh_token (None, Some(""), Some(non-empty)); origin records which
\* call produced it ("disk": found in the cache file at first start).
RefreshShapes == {"none", "empty", "ok"}
Token(acc, ref, origin) == [acc |-> acc, ref |-> ref, origin |-> origin]

\* Cache files the first run may find: absent, or a record left there
\* earlier (complete or not).
InitFiles ==
  {None} \cup {Some(Token(a, r, "disk")) : a \in BOOLEAN, r \in RefreshShapes}

\* ensure_authenticated, lines 113 and 119: both tokens present.
TokenComplete(t) == t.acc /\ t.ref = "ok"

\* client.refresh_token(): a new access token; the refresh token is kept.
Refreshed(t) == Token(TRUE, t.ref, "refresh")

(* ------------------------------------------------------------------ *)
(* State                                                               *)
(* ------------------------------------------------------------------ *)

VARIABLES
  mpc,      \* position of main / the constructor
  file,     \* the token cache file (Option<Token>)
  session,  \* the client's in-memory token (Option<Token>)
  st,       \* what this start-up did (locals of ensure_authenticated)
  verification_delay_ms,
  max_verification_attempts,
  lock,     \* holder of Arc<Mutex<SpotifyManager>> (Option<task>)
  waitq,    \* tasks queued on the mutex, first come first served
  tpc,      \* position of each task
  kind,     \* what each task runs
  eng,      \* locals of the running like/unlike call and its verification
  res,      \* result each handler reports
  expired,  \* the session token's expires_at is in the past
  track_id_str,  \* the argument of parse_track_id, a sequence of text pieces
  track_id,      \* what parse_track_id returned for it
  reads,         \* the answers is_track_liked gives in turn to a verification
  verified,      \* what the two verifications returned for them
  polled,        \* what get_current_track gave the poller, poll by poll
  last_track_id, \* the poller's last_track_id (Option<String>)
  tray           \* the UpdateTrayWithTrack messages the poller has sent

vars == << mpc, file, session, st, verification_delay_ms,
           max_verification_attempts, lock, waitq, tpc, kind, eng, res,
           expired, track_id_str, track_id, reads, verified, polled,
           last_track_id, tray >>

\* The arguments and results of the functions looked at on their own.
PureVars == << track_id_str, track_id, reads, verified, polled,
               last_track_id, tray >>

\* A verification has not been run.
NotVerified == [success |-> FALSE, attempts |-> -1, corr |-> {}]

\* parse_track_id has not been called.
NotParsed == [ok |-> FALSE, id |-> << >>, form |-> "none"]

Poller == 0
Handlers == 1..MaxActions
Tasks == {Poller} \cup Handlers

(* ------------------------------------------------------------------ *)
(* Start-up: with_config, ensure_authenticated, authenticate_first_time *)
(* ------------------------------------------------------------------ *)

\* Locals of one start-up, all unset.
StInit ==
  [ctor |-> "none", atStart |-> None, loadRes |-> "unread", loaded |-> None,
   probe |-> "none",
   refresh |-> "none", nRefresh |-> 0, save |-> "none",
   interactive |-> FALSE, input |-> "none", exchange |-> "none",
   result |-> "none", cleared |-> << >>]

\* No task exists before main spawns them.
NoTasks == [t \in Tasks |-> "idle"]
NoKinds == [t \in Tasks |-> "none"]
NoRes == [t \in Tasks |-> "none"]

\* Locals of like_current_track / verify_track_liked, all unset.
EngIdle ==
  [attempt |-> 0, lastRes |-> "none", nCalls |-> 0, nSleeps |-> 0,
   slept |-> 0, nWrites |-> 0, corr |-> {}, lateOpp |-> {},
   hist |-> "clean", desiredAt |-> -1,
   returned |-> FALSE, success |-> FALSE, attempts |-> 0,
   wrote |-> "none", corrErr |-> FALSE, cur |-> "none", behind |-> {}]
NoEng == [t \in Tasks |-> EngIdle]

TaskVars == << lock, waitq, tpc, kind, eng, res >>
ConfigVars == << verification_delay_ms, max_verification_attempts >>

\* The result of a start-up that returned Err: main returns, the process ends.
StartFailed(s) == [s EXCEPT !.result = "err"]

\* new / new_with_fresh_auth / with_config up to the call of
\* ensure_authenticated. new_with_fresh_auth removes the cache file first.
\* get_token_cache_path (line 72) may fail: with_config returns Err.
\* Fault: new_with_fresh_auth without its remove_file.
CacheAfterCtor_kept(c, pathOk, f) == f

\* new_with_fresh_auth, lines 45-48: the cache file is removed when its path
\* is known; new leaves it alone.
CacheAfterCtor(c, pathOk, f) == IF c = "fresh" /\ pathOk THEN None ELSE f

Construct ==
  /\ mpc = "ctor"
  /\ \E c \in {"new", "fresh"}, pathOk \in BOOLEAN :
       /\ file' = CacheAfterCtor(c, pathOk, file)
       /\ verification_delay_ms' = IF c = "new" THEN NewDelayMs ELSE FreshDelayMs
       /\ max_verification_attempts' =
            IF c = "new" THEN NewMaxAttempts ELSE FreshMaxAttempts
       /\ IF pathOk
            THEN /\ mpc' = "load"
                 /\ st' = [st EXCEPT !.ctor = c, !.atStart = file]
            ELSE /\ mpc' = "exited"
                 /\ st' = StartFailed([st EXCEPT !.ctor = c, !.atStart = file])
  /\ UNCHANGED << PureVars, expired, session, TaskVars >>

\* What client.read_token_cache(false) may return for a cache file: the
\* record, Ok(None) (no usable record: rspotify also answers so for a record
\* it rejects), or Err (unreadable or unparsable).
LoadOutcomes(f) == IF f = None THEN {"none", "err"} ELSE {"some", "none", "err"}

\* Fault: the completeness checks of lines 113-123 left out.
ProbeAfterLoad_unchecked(r, f) == r = "some"

\* Fault: the refresh-token test of line 119 inverted, so that a complete
\* cached token is taken for an incomplete one.
ProbeAfterLoad_inverted(r, f) == r = "some" /\ f[1].acc /\ f[1].ref # "ok"

\* ensure_authenticated, lines 96-128: after the match on the cache read.
\* A complete token is installed in the client and probed; anything else
\* goes to authenticate_first_time.
ProbeAfterLoad(r, f) == r = "some" /\ TokenComplete(f[1])

ReadTokenCache ==
  /\ mpc = "load"
  /\ \E r \in LoadOutcomes(file) :
       /\ st' = [st EXCEPT !.loadRes = r,
                           !.loaded = IF r = "some" THEN file ELSE None]
       /\ IF ProbeAfterLoad(r, file)
            THEN /\ session' = file
                 /\ mpc' = "probe"
            ELSE /\ session' = session
                 /\ mpc' = "auth"
  /\ UNCHANGED << PureVars, expired, file, ConfigVars, TaskVars >>

\* ensure_authenticated, lines 131-137: client.current_user().
\* Where the start-up goes after the probe answered.
AfterProbe(ok) == IF ok THEN "started" ELSE "refresh"

ProbeToken ==
  /\ mpc = "probe"
  /\ \E ok \in BOOLEAN :
       /\ mpc' = AfterProbe(ok)
       /\ st' = [st EXCEPT !.probe = IF ok THEN "ok" ELSE "err",
                           !.result = IF AfterProbe(ok) = "started"
                                        THEN "ok" ELSE @]
  /\ UNCHANGED << PureVars, expired, file, session, ConfigVars, TaskVars >>

\* Fault: the refreshed token is not written to the cache.
AfterRefresh_unsaved(ok) == IF ok THEN "started" ELSE "auth"

\* ensure_authenticated, lines 139-148: the match on the refresh; Ok goes
\* on to write_token_cache, Err to authenticate_first_time.
AfterRefresh(ok) == IF ok THEN "save" ELSE "auth"

\* ensure_authenticated, lines 138-148: client.refresh_token().
RefreshAtStartup ==
  /\ mpc = "refresh"
  /\ \E ok \in BOOLEAN :
       /\ st' = [st EXCEPT !.refresh = IF ok THEN "ok" ELSE "err",
                           !.nRefresh = @ + 1]
       /\ session' = IF ok THEN Some(Refreshed(session[1])) ELSE session
       /\ mpc' = AfterRefresh(ok)
  /\ UNCHANGED << PureVars, expired, file, ConfigVars, TaskVars >>

\* ensure_authenticated, lines 141-142: client.write_token_cache()?
SaveRefreshed ==
  /\ mpc = "save"
  /\ \E ok \in BOOLEAN :
       /\ file' = IF ok THEN session ELSE file
       /\ mpc' = IF ok THEN "started" ELSE "exited"
       /\ st' = [st EXCEPT !.save = IF ok THEN "ok" ELSE "err",
                           !.result = IF ok THEN "ok" ELSE "err"]
  /\ UNCHANGED << PureVars, expired, session, ConfigVars, TaskVars >>

\* authenticate_first_time, lines 167-190: the cache file is removed, the
\* authorize URL is shown, and the flow blocks on stdin.
BeginInteractive ==
  /\ mpc = "auth"
  /\ file' = None
  /\ mpc' = "paste"
  /\ st' = [st EXCEPT !.interactive = TRUE]
  /\ UNCHANGED << PureVars, expired, session, ConfigVars, TaskVars >>

\* What the user may paste: text that is no URL, a URL with no `code`
\* parameter, a redirect URL carrying a code; or stdin fails.
PastedInputs == {"ioerr", "notUrl", "noCode", "code"}

\* Fault: a URL with no `code` pair is taken for one that has it.
CodeFound_anyUrl(i) == i \in {"code", "noCode"}

\* authenticate_first_time, lines 190-201: read_line, Url::parse and the
\* search for the `code` query pair all went well.
CodeFound(i) == i = "code"

\* authenticate_first_time, lines 190-201: read_line, Url::parse, the
\* search for the `code` query pair; each failure returns Err.
PasteRedirect ==
  /\ mpc = "paste"
  /\ \E i \in PastedInputs :
       IF CodeFound(i)
         THEN /\ mpc' = "exchange"
              /\ st' = [st EXCEPT !.input = i]
         ELSE /\ mpc' = "exited"
              /\ st' = StartFailed([st EXCEPT !.input = i])
  /\ UNCHANGED << PureVars, expired, file, session, ConfigVars, TaskVars >>

\* Fault: the is_empty test of line 219 left out.
GrantComplete_present(r) == r # "none"

\* authenticate_first_time, lines 213-222: the exchanged token has a
\* refresh token and it is not empty.
GrantComplete(r) == r = "ok"

\* authenticate_first_time, lines 204-228: client.request_token(&code)
\* installs the exchanged token in the client; the flow goes on only with a
\* non-empty refresh token.
ExchangeCode ==
  /\ mpc = "exchange"
  /\ \E ok \in BOOLEAN, r \in RefreshShapes :
       IF ok
         THEN /\ session' = Some(Token(TRUE, r, "exchange"))
              /\ IF GrantComplete(r)
                   THEN /\ mpc' = "persist"
                        /\ st' = [st EXCEPT !.exchange = "ok"]
                   ELSE /\ mpc' = "exited"
                        /\ st' = StartFailed([st EXCEPT !.exchange = "ok"])
         ELSE /\ session' = session
              /\ mpc' = "exited"
              /\ st' = StartFailed([st EXCEPT !.exchange = "err"])
  /\ UNCHANGED << PureVars, expired, file, ConfigVars, TaskVars >>

\* authenticate_first_time, lines 231-256: write_token_cache()?, then the
\* read-back, which only logs.
PersistExchanged ==
  /\ mpc = "persist"
  /\ \E ok \in BOOLEAN :
       /\ file' = IF ok THEN session ELSE file
       /\ mpc' = IF ok THEN "started" ELSE "exited"
       /\ st' = [st EXCEPT !.save = IF ok THEN "ok" ELSE "err",
                           !.result = IF ok THEN "ok" ELSE "err"]
  /\ UNCHANGED << PureVars, expired, session, ConfigVars, TaskVars >>

(* ------------------------------------------------------------------ *)
(* main: the tasks and the mutex around the manager                    *)
(* ------------------------------------------------------------------ *)

Init ==
  /\ mpc = "ctor"
  /\ file \in InitFiles
  /\ session = None
  /\ st = StInit
  /\ verification_delay_ms = NewDelayMs
  /\ max_verification_attempts = NewMaxAttempts
  /\ lock = None
  /\ waitq = << >>
  /\ tpc = NoTasks
  /\ kind = NoKinds
  /\ eng = NoEng
  /\ res = NoRes
  /\ expired = FALSE
  /\ track_id_str = << >>
  /\ track_id = NotParsed
  /\ reads = << >>
  /\ verified = [liked |-> NotVerified, unliked |-> NotVerified,
                 plain |-> NotVerified]
  /\ polled = << >>
  /\ last_track_id = None
  /\ tray = << >>

\* A main that spawns the poller before the manager has authenticated.
Run_early ==
  /\ mpc = "started" \/ (mpc = "load" /\ tpc[Poller] = "idle")
  /\ mpc' = IF mpc = "started" THEN "running" ELSE mpc
  /\ st' = IF mpc = "started" THEN StInit ELSE st
  /\ tpc' = [NoTasks EXCEPT ![Poller] = "tick"]
  /\ kind' = [NoKinds EXCEPT ![Poller] = "poll"]
  /\ UNCHANGED << PureVars, expired, file, session, ConfigVars, lock, waitq, eng, res >>

\* main, lines 62-208: the manager goes behind Arc<Mutex<..>> and the
\* poller task is spawned; it first waits for its interval.
Run ==
  /\ mpc = "started"
  /\ mpc' = "running"
  /\ st' = StInit
  /\ tpc' = [NoTasks EXCEPT ![Poller] = "tick"]
  /\ kind' = [NoKinds EXCEPT ![Poller] = "poll"]
  /\ UNCHANGED << PureVars, expired, file, session, ConfigVars, lock, waitq, eng, res >>

\* The messages whose handlers use the manager (main, lines 242-261).
Messages ==
  {"LikeCurrentTrack", "UnlikeCurrentTrack", "SaveCurrentTrack", "ShowCurrentTrack"}

\* The manager call a handler makes: handle_save_track calls
\* save_current_track, which is like_current_track (lines 357-359).
CallOf(m) ==
  CASE m = "UnlikeCurrentTrack" -> "unlike"
    [] m = "ShowCurrentTrack" -> "show"
    [] OTHER -> "like"

Mutations == {"like", "unlike"}

\* main, lines 238-261: a message is received and its handler is spawned.
\* Messages are received in the order they were sent; behind keeps the
\* handlers of earlier messages that have not come to their lock().await.
Spawn(h, m) ==
  /\ mpc = "running"
  /\ tpc[h] = "idle"
  /\ tpc' = [tpc EXCEPT ![h] = "spawned"]
  /\ kind' = [kind EXCEPT ![h] = CallOf(m)]
  /\ eng' = [eng EXCEPT ![h].behind = {u \in Handlers : tpc[u] = "spawned"}]
  /\ UNCHANGED << PureVars, expired, mpc, file, session, st, ConfigVars, lock, waitq, res >>

\* Fault: get_current_track without its ensure_token_valid.
FirstPc_unchecked(k) == IF k \in Mutations THEN "ev1" ELSE "cur"

\* The first step of a task once it holds the manager: like/unlike/save
\* start with ensure_token_valid (lines 321, 363), the others with
\* get_current_track.
FirstPc(k) == IF k \in Mutations THEN "ev1" ELSE "ev2"

\* Fault: a lock that is granted whoever holds it.
CanAcquire_always(l) == TRUE

\* tokio::sync::Mutex::lock: granted at once only when nobody holds it.
CanAcquire(l) == l = None

\* spotify_manager.lock().await (lines 291, 314, 337, 360): the first thing
\* a handler does; the poller does it when interval.tick().await returns
\* (lines 184-186). The task takes the mutex or queues for it.
LockManager(t) ==
  /\ mpc = "running"
  /\ tpc[t] \in {"spawned", "tick"}
  /\ IF CanAcquire(lock)
       THEN /\ lock' = Some(t)
            /\ tpc' = [tpc EXCEPT ![t] = FirstPc(kind[t])]
            /\ waitq' = waitq
       ELSE /\ waitq' = Append(waitq, t)
            /\ tpc' = [tpc EXCEPT ![t] = "wait"]
            /\ lock' = lock
  /\ eng' = [u \in Tasks |->
               [eng[u] EXCEPT !.behind = IF u = t THEN {} ELSE @ \ {t}]]
  /\ UNCHANGED << PureVars, expired, mpc, file, session, st, ConfigVars, kind, res >>

\* ensure_token_valid, lines 272-287: the probe current_user(); on Err a
\* refresh and a save of the refreshed token, each `?`-propagated.
EvOutcomes == {"valid", "refreshed", "refreshErr", "saveErr"}
\* The remote rejects the probe of a token whose expires_at has passed.
EvOutcomesWhen(x) == IF x THEN EvOutcomes \ {"valid"} ELSE EvOutcomes
EvOk(o) == o \in {"valid", "refreshed"}
EvSession(o, s) == IF o \in {"refreshed", "saveErr"} THEN Some(Refreshed(s[1])) ELSE s
\* Fault: the refreshed token is never written to the cache.
EvFile_unsaved(o, s, f) == f

\* Line 282: write_token_cache after a refresh that succeeded.
EvFile(o, s, f) == IF o = "refreshed" THEN Some(Refreshed(s[1])) ELSE f
\* A refreshed token expires in the future.
EvExpired(o, x) == IF o \in {"refreshed", "saveErr"} THEN FALSE ELSE x
\* The Err an action gets from ensure_token_valid: the refresh failed
\* (line 280) or the refreshed token could not be saved (line 282).
EvError(o) == IF o = "saveErr" THEN "err_save" ELSE "err_auth"

\* A task's step that ends its call with a result: the handler goes on to
\* show it.
Finished(t, r) ==
  /\ tpc' = [tpc EXCEPT ![t] = "done"]
  /\ res' = [res EXCEPT ![t] = r]

\* like_current_track / unlike_current_track, lines 321, 363:
\* self.ensure_token_valid().await?
EnsureFirst(t) ==
  /\ tpc[t] = "ev1"
  /\ \E o \in EvOutcomesWhen(expired) :
       /\ session' = EvSession(o, session)
       /\ file' = EvFile(o, session, file)
       /\ expired' = EvExpired(o, expired)
       /\ IF EvOk(o)
            THEN /\ tpc' = [tpc EXCEPT ![t] = "ev2"]
                 /\ res' = res
            ELSE Finished(t, EvError(o))
  /\ UNCHANGED << PureVars, mpc, st, ConfigVars, lock, waitq, kind, eng >>

\* get_current_track, line 291: self.ensure_token_valid().await?
EnsureCurrent(t) ==
  /\ tpc[t] = "ev2"
  /\ \E o \in EvOutcomesWhen(expired) :
       /\ session' = EvSession(o, session)
       /\ file' = EvFile(o, session, file)
       /\ expired' = EvExpired(o, expired)
       /\ IF EvOk(o)
            THEN /\ tpc' = [tpc EXCEPT ![t] = "cur"]
                 /\ res' = res
            ELSE Finished(t, EvError(o))
  /\ UNCHANGED << PureVars, mpc, st, ConfigVars, lock, waitq, kind, eng >>

\* What current_playing and the reading of its answer may give: the call
\* fails, nothing plays, the item is no track, the track has no id, its id
\* does not parse (parse_track_id), or a track with a usable id.
CurOutcomes == {"err", "nothing", "notTrack", "noId", "badId", "track"}

\* Fault: an id that does not parse is passed on to the write.
AfterCurrent_lenient(k, c) ==
  CASE c = "err" -> "err_api"
    [] c \in {"nothing", "notTrack"} -> "err_notrack"
    [] c = "noId" -> IF k \in Mutations THEN "err_noid" ELSE "ok"
    [] OTHER -> IF k \in Mutations THEN "go" ELSE "ok"

\* get_current_track, lines 293-316, and for a mutation lines 325-326 and
\* 352: the result of the step, "go" when the call goes on to its write.
AfterCurrent(k, c) ==
  CASE c = "err" -> "err_api"
    [] c \in {"nothing", "notTrack"} -> "err_notrack"
    [] c = "noId" -> IF k \in Mutations THEN "err_noid" ELSE "ok"
    [] c = "badId" -> IF k \in Mutations THEN "err_badid" ELSE "ok"
    [] OTHER -> IF k \in Mutations THEN "go" ELSE "ok"

CurrentPlaying(t) ==
  /\ tpc[t] = "cur"
  /\ \E c \in CurOutcomes :
       /\ eng' = IF kind[t] \in Mutations
                   THEN [eng EXCEPT ![t].cur = c] ELSE eng
       /\ IF AfterCurrent(kind[t], c) = "go"
            THEN /\ tpc' = [tpc EXCEPT ![t] = "write"]
                 /\ res' = res
            ELSE Finished(t, AfterCurrent(kind[t], c))
  /\ UNCHANGED << PureVars, expired, mpc, file, session, st, ConfigVars, lock, waitq, kind >>

\* Fault: the Err of the write is only logged, as that of a corrective one.
AfterInitialWrite_logged(t, ok) ==
  /\ tpc' = [tpc EXCEPT ![t] = "pre_ev"]
  /\ res' = res

\* Lines 329-331 (371-373): current_user_saved_tracks_add(..).await
\* .context(..)? returns the Err of the write; Ok goes on to line 334,
\* verify_track_liked.
AfterInitialWrite(t, ok) ==
  IF ok
    THEN /\ tpc' = [tpc EXCEPT ![t] = "pre_ev"]
         /\ res' = res
    ELSE Finished(t, "err_write")

\* like_current_track, lines 331-334 (unlike: 373-376): the write,
\* `?`-propagated.
InitialWrite(t) ==
  /\ tpc[t] = "write"
  /\ \E ok \in BOOLEAN :
       /\ eng' = [eng EXCEPT ![t].nWrites = @ + 1,
                             ![t].wrote = IF ok THEN "ok" ELSE "err"]
       /\ AfterInitialWrite(t, ok)
  /\ UNCHANGED << PureVars, expired, mpc, file, session, st, ConfigVars, lock, waitq, kind >>

(* ------------------------------------------------------------------ *)
(* The verification engine: is_track_liked, verify_track_liked,        *)
(* verify_track_unliked                                                *)
(* ------------------------------------------------------------------ *)

\* A membership read gives "T" (liked), "F" (not liked), "E" (the contains
\* call failed) or "EA" (ensure_token_valid failed inside is_track_liked).
ReadResults == {"T", "F", "E"}

\* verify_track_liked waits for Ok(true), verify_track_unliked for Ok(false).
Desired(k) == IF k = "unlike" THEN "F" ELSE "T"
OppositeOf(k) == IF k = "unlike" THEN "T" ELSE "F"

\* Fault: the step counted from the attempt number, not from attempt - 1.
Delay_late(base, attempt) == base + attempt * StepDelayMs

\* Lines 441, 511: verification_delay_ms + (attempt - 1) as u64 * 500.
Delay(base, attempt) == base + (attempt - 1) * StepDelayMs

\* Fault: the corrective window tested with == for >=.
CorrectiveDue_eq(attempt, max) == attempt = max - CorrectiveWindow

\* Fault: the write is sent again after every opposite read.
CorrectiveDue_always(attempt, max) == TRUE

\* max_verification_attempts is a u32: max - 2 is below zero for max < 2.
Underflows(max) == max < CorrectiveWindow

\* 2^16; x \div TwoTo16 >= TwoTo16 is x >= 2^32.
TwoTo16 == 65536

\* Lines 460, 530: attempt >= self.max_verification_attempts - 2, in u32.
\* Where the subtraction wraps (a build without overflow checks) its value
\* is 2^32 + max - 2, and the test is attempt - max + 2 >= 2^32.
CorrectiveDue(attempt, max) ==
  IF Underflows(max)
    THEN (attempt + CorrectiveWindow - max) \div TwoTo16 >= TwoTo16
    ELSE attempt >= max - CorrectiveWindow

\* Lines 424-429, 449-454, 477-482: the VerificationResult returned.
Returned(e, ok, n) == [e EXCEPT !.returned = TRUE, !.success = ok, !.attempts = n]

\* What the reads of a run were like so far: "clean" (every one answered),
\* "transient" (a contains call failed, no token check did), "auth" (a
\* token check inside is_track_liked failed).
HistAfter(h, r) ==
  IF r = "EA" \/ h = "auth" THEN "auth"
  ELSE IF r = "E" THEN "transient" ELSE h

\* The read at index i (0: the check before the loop) answered r. Kept for
\* the record: the last answer, what the reads were like, which of the
\* final two attempts read the opposite state, and the index of the read
\* that saw the desired state.
NoteRead(e, k, i, r) ==
  [e EXCEPT !.lastRes = r,
            !.hist = HistAfter(@, r),
            !.lateOpp = IF r = OppositeOf(k) /\ i >= 1
                             /\ i >= max_verification_attempts - 1
                          THEN @ \cup {i} ELSE @,
            !.desiredAt = IF r = Desired(k) THEN i ELSE @]

\* One more call of is_track_liked.
Called(e) == [e EXCEPT !.nCalls = @ + 1]

\* Fault: the loop runs 1..max exclusive, one attempt short.
LoopNext_short(t, e) ==
  IF e.attempt < max_verification_attempts - 1
    THEN /\ eng' = [eng EXCEPT ![t] = [e EXCEPT !.attempt = @ + 1]]
         /\ tpc' = [tpc EXCEPT ![t] = "sleep"]
    ELSE /\ eng' = [eng EXCEPT ![t] = Returned(e, FALSE, max_verification_attempts)]
         /\ tpc' = [tpc EXCEPT ![t] = "ret"]

\* Fault: the loop runs one attempt too many.
LoopNext_long(t, e) ==
  IF e.attempt <= max_verification_attempts
    THEN /\ eng' = [eng EXCEPT ![t] = [e EXCEPT !.attempt = @ + 1]]
         /\ tpc' = [tpc EXCEPT ![t] = "sleep"]
    ELSE /\ eng' = [eng EXCEPT ![t] = Returned(e, FALSE, max_verification_attempts)]
         /\ tpc' = [tpc EXCEPT ![t] = "ret"]

\* Lines 439, 473-482: the for loop goes to its next attempt, or is over.
LoopNext(t, e) ==
  IF e.attempt < max_verification_attempts
    THEN /\ eng' = [eng EXCEPT ![t] = [e EXCEPT !.attempt = @ + 1]]
         /\ tpc' = [tpc EXCEPT ![t] = "sleep"]
    ELSE /\ eng' = [eng EXCEPT ![t] = Returned(e, FALSE, max_verification_attempts)]
         /\ tpc' = [tpc EXCEPT ![t] = "ret"]

\* Fault: the check before the loop does not return on the desired state.
AfterPreflight_noreturn(t, e0, r) == LoopNext(t, NoteRead(e0, kind[t], 0, r))

\* Lines 421-437 (491-507): the match on the check before the loop.
AfterPreflight(t, e0, r) ==
  LET e == NoteRead(e0, kind[t], 0, r) IN
  IF r = Desired(kind[t])
    THEN /\ eng' = [eng EXCEPT ![t] = Returned(e, TRUE, 0)]
         /\ tpc' = [tpc EXCEPT ![t] = "ret"]
    ELSE LoopNext(t, e)

\* Fault: the attempt reported on success counted from zero.
AfterLoopRead_zero(t, e0, r) ==
  LET e == NoteRead(e0, kind[t], e0.attempt, r) IN
  IF r = Desired(kind[t])
    THEN /\ eng' = [eng EXCEPT ![t] = Returned(e, TRUE, e.attempt - 1)]
         /\ tpc' = [tpc EXCEPT ![t] = "ret"]
    ELSE IF r = OppositeOf(kind[t])
              /\ CorrectiveDue(e.attempt, max_verification_attempts)
           THEN /\ eng' = [eng EXCEPT ![t] = e]
                /\ tpc' = [tpc EXCEPT ![t] = "corr"]
           ELSE LoopNext(t, e)

\* Fault: a failed read ends the verification at once.
AfterLoopRead_abort(t, e0, r) ==
  LET e == NoteRead(e0, kind[t], e0.attempt, r) IN
  IF r = Desired(kind[t])
    THEN /\ eng' = [eng EXCEPT ![t] = Returned(e, TRUE, e.attempt)]
         /\ tpc' = [tpc EXCEPT ![t] = "ret"]
    ELSE IF r \in {"E", "EA"}
           THEN /\ eng' = [eng EXCEPT ![t] = Returned(e, FALSE, e.attempt)]
                /\ tpc' = [tpc EXCEPT ![t] = "ret"]
           ELSE IF CorrectiveDue(e.attempt, max_verification_attempts)
                  THEN /\ eng' = [eng EXCEPT ![t] = e]
                       /\ tpc' = [tpc EXCEPT ![t] = "corr"]
                  ELSE LoopNext(t, e)

\* Lines 445-472 (515-542): the match on the read of one attempt. In the
\* opposite-state arm the test of line 460 is evaluated: where max - 2
\* underflows, a build with overflow checks panics there and a build
\* without them goes on with the wrapped value.
AfterLoopRead(t, e0, r) ==
  LET e == NoteRead(e0, kind[t], e0.attempt, r) IN
  IF r = Desired(kind[t])
    THEN /\ eng' = [eng EXCEPT ![t] = Returned(e, TRUE, e.attempt)]
         /\ tpc' = [tpc EXCEPT ![t] = "ret"]
    ELSE IF r = OppositeOf(kind[t])
           THEN \/ /\ Underflows(max_verification_attempts)
                   /\ eng' = [eng EXCEPT ![t] = e]
                   /\ tpc' = [tpc EXCEPT ![t] = "panicked"]
                \/ /\ CorrectiveDue(e.attempt, max_verification_attempts)
                   /\ eng' = [eng EXCEPT ![t] = e]
                   /\ tpc' = [tpc EXCEPT ![t] = "corr"]
                \/ /\ ~CorrectiveDue(e.attempt, max_verification_attempts)
                   /\ LoopNext(t, e)
           ELSE LoopNext(t, e)

\* is_track_liked, line 400, called from line 421 (491): the Err of
\* ensure_token_valid is the Err of is_track_liked.
PreflightEnsure(t) ==
  /\ tpc[t] = "pre_ev"
  /\ \E o \in EvOutcomesWhen(expired) :
       /\ session' = EvSession(o, session)
       /\ file' = EvFile(o, session, file)
       /\ expired' = EvExpired(o, expired)
       /\ IF EvOk(o)
            THEN /\ tpc' = [tpc EXCEPT ![t] = "pre_call"]
                 /\ eng' = [eng EXCEPT ![t] = Called(eng[t])]
            ELSE AfterPreflight(t, Called(eng[t]), "EA")
  /\ UNCHANGED << PureVars, mpc, st, ConfigVars, lock, waitq, kind, res >>

\* is_track_liked, lines 404-412, called from line 421 (491).
PreflightRead(t) ==
  /\ tpc[t] = "pre_call"
  /\ \E r \in ReadResults :
       AfterPreflight(t, eng[t], r)
  /\ UNCHANGED << PureVars, expired, mpc, file, session, st, ConfigVars, lock, waitq, kind, res >>

\* Fault: the guard is given up for the time of the sleep.
Sleep_unlocked(t) ==
  /\ tpc[t] = "sleep"
  /\ eng' = [eng EXCEPT ![t].nSleeps = @ + 1,
                        ![t].slept = @ + Delay(verification_delay_ms, eng[t].attempt)]
  /\ tpc' = [tpc EXCEPT ![t] = "read_ev"]
  /\ lock' = None
  /\ UNCHANGED << PureVars, expired, mpc, file, session, st, ConfigVars, waitq, kind, res >>

\* Lines 441-443 (511-513): the sleep before the read of an attempt.
Sleep(t) ==
  /\ tpc[t] = "sleep"
  /\ eng' = [eng EXCEPT ![t].nSleeps = @ + 1,
                        ![t].slept = @ + Delay(verification_delay_ms, eng[t].attempt)]
  /\ tpc' = [tpc EXCEPT ![t] = "read_ev"]
  /\ UNCHANGED << PureVars, expired, mpc, file, session, st, ConfigVars, lock, waitq, kind, res >>

\* is_track_liked, line 400, called from line 445 (515).
LoopEnsure(t) ==
  /\ tpc[t] = "read_ev"
  /\ \E o \in EvOutcomesWhen(expired) :
       /\ session' = EvSession(o, session)
       /\ file' = EvFile(o, session, file)
       /\ expired' = EvExpired(o, expired)
       /\ IF EvOk(o)
            THEN /\ tpc' = [tpc EXCEPT ![t] = "read_call"]
                 /\ eng' = [eng EXCEPT ![t] = Called(eng[t])]
            ELSE AfterLoopRead(t, Called(eng[t]), "EA")
  /\ UNCHANGED << PureVars, mpc, st, ConfigVars, lock, waitq, kind, res >>

\* is_track_liked, lines 404-412, called from line 445 (515).
LoopRead(t) ==
  /\ tpc[t] = "read_call"
  /\ \E r \in ReadResults :
       AfterLoopRead(t, eng[t], r)
  /\ UNCHANGED << PureVars, expired, mpc, file, session, st, ConfigVars, lock, waitq, kind, res >>

\* Fault: a failed corrective write ends the verification.
AfterCorrective_abort(t, e, ok) ==
  IF ok
    THEN LoopNext(t, e)
    ELSE /\ eng' = [eng EXCEPT ![t] = Returned(e, FALSE, e.attempt)]
         /\ tpc' = [tpc EXCEPT ![t] = "ret"]

\* Lines 462-466 (532-536): if let Err(e) = .. { warn } else { info }; both
\* arms fall through to the end of the loop body.
AfterCorrective(t, e, ok) == LoopNext(t, e)

\* Lines 461-466 (531-536): the write is sent again; its Err is only logged.
CorrectiveWrite(t) ==
  /\ tpc[t] = "corr"
  /\ \E ok \in BOOLEAN :
       AfterCorrective(t, [eng[t] EXCEPT !.nWrites = @ + 1,
                                         !.corr = @ \cup {eng[t].attempt},
                                         !.corrErr = @ \/ ~ok], ok)
  /\ UNCHANGED << PureVars, expired, mpc, file, session, st, ConfigVars, lock, waitq, kind, res >>

\* Fault: the action reports success whatever the verification found.
ActionResult_blind(vr) == "ok"

\* like_current_track, lines 341-350 (unlike: 383-392): Ok(track_info)
\* when the verification succeeded, Err otherwise.
ActionResult(vr) == IF vr.success THEN "ok" ELSE "err_verify"

Conclude(t) ==
  /\ tpc[t] = "ret"
  /\ Finished(t, ActionResult(eng[t]))
  /\ UNCHANGED << PureVars, expired, mpc, file, session, st, ConfigVars, lock, waitq, kind, eng >>

\* Fault: the guard is dropped without waking the task queued first.
NextHolder_lost(q) == None

\* Dropping the MutexGuard: the mutex goes to the first task queued for it,
\* if there is one.
NextHolder(q) == IF q = << >> THEN None ELSE Some(Head(q))

\* The end of a handler (main, lines 294-310 and the like) or of one round
\* of the poller (lines 189-207): the result is shown and the guard is
\* dropped; the mutex goes to the first task queued for it.
Finish(t) ==
  /\ tpc[t] = "done"
  /\ lock' = NextHolder(waitq)
  /\ waitq' = IF waitq = << >> THEN waitq ELSE Tail(waitq)
  /\ tpc' = [u \in Tasks |->
               IF u = t THEN (IF t = Poller THEN "tick" ELSE "idle")
               ELSE IF NextHolder(waitq) = Some(u) THEN FirstPc(kind[u])
               ELSE tpc[u]]
  /\ kind' = IF t = Poller THEN kind ELSE [kind EXCEPT ![t] = "none"]
  /\ eng' = [eng EXCEPT ![t] = EngIdle]
  /\ res' = [res EXCEPT ![t] = "none"]
  /\ UNCHANGED << PureVars, expired, mpc, file, session, st, ConfigVars >>

\* main, lines 279-282: Quit ends the event loop and with it the process.
Quit ==
  /\ mpc = "running"
  /\ mpc' = "exited"
  /\ session' = None
  /\ lock' = None
  /\ waitq' = << >>
  /\ tpc' = NoTasks
  /\ kind' = NoKinds
  /\ eng' = NoEng
  /\ res' = NoRes
  /\ expired' = FALSE
  /\ UNCHANGED << PureVars, file, st, ConfigVars >>

\* The program is started again; only the cache file is left of the last run.
Restart ==
  /\ mpc = "exited"
  /\ mpc' = "ctor"
  /\ st' = StInit
  /\ session' = None
  /\ UNCHANGED << PureVars, expired, file, ConfigVars, TaskVars >>

\* Time passes while the program runs: the expires_at of the token the
\* client holds (about an hour after it was issued) is reached. No line of
\* the manager reads expires_at (line 104 logs it), so no other step
\* depends on it.
Expire ==
  /\ mpc = "running"
  /\ session # None
  /\ ~expired
  /\ expired' = TRUE
  /\ UNCHANGED << PureVars, mpc, file, session, st, ConfigVars, TaskVars >>

(* ------------------------------------------------------------------ *)
(* parse_track_id                                                      *)
(* ------------------------------------------------------------------ *)

\* A string is a sequence of pieces of text. PFX is the literal text
\* "spotify:track:"; "/" and "?" are the characters split() looks for; "-"
\* is any other character that is not alphanumeric; ID_A and ID_B are two
\* different runs of 22 ASCII letters and digits; AN21 and AN1 are runs of
\* 21 and of 1 ASCII letters and digits; UNI11 is a run of 11 letters
\* outside ASCII, two bytes each.
IdLen == 22
PrefixLen == 14
Pieces == {"PFX", "/", "?", "-", "ID_A", "ID_B", "AN21", "AN1", "UNI11"}

\* Longest input, in pieces.
MaxPieces == 4

\* str::len() of one piece: its length in bytes.
PieceLen(a) ==
  CASE a = "PFX" -> PrefixLen
    [] a \in {"ID_A", "ID_B", "UNI11"} -> IdLen
    [] a = "AN21" -> IdLen - 1
    [] OTHER -> 1

RECURSIVE len(_)
len(str) == IF str = << >> THEN 0 ELSE PieceLen(Head(str)) + len(Tail(str))

\* char::is_alphanumeric holds of every character of the piece (it is the
\* Unicode property, so it holds of letters outside ASCII too).
is_alphanumeric(a) == a \in {"ID_A", "ID_B", "AN21", "AN1", "UNI11"}

\* char::is_ascii_alphanumeric holds of every character of the piece.
is_ascii_alphanumeric(a) == a \in {"ID_A", "ID_B", "AN21", "AN1"}

TrackIdStrs == UNION {[1..n -> Pieces] : n \in 0..MaxPieces}

IdError(f) == [ok |-> FALSE, id |-> << >>, form |-> f]

\* rspotify's TrackId::from_id as parse_track_id uses it (lines 562, 574):
\* the id is taken as it is when all its characters are ASCII letters or
\* digits, and refused otherwise; its length is not looked at.
from_id(id, f) ==
  IF \A i \in 1..Len(id) : is_ascii_alphanumeric(id[i])
    THEN [ok |-> TRUE, id |-> id, form |-> f]
    ELSE IdError(f)

\* rspotify's TrackId::from_uri as parse_track_id uses it (line 559), on a
\* text that starts with "spotify:track:": the id is what follows the last
\* ':' and the type is what stands before it, so a second "spotify:track:"
\* further on spoils the type.
from_uri(uri, f) ==
  IF \E i \in 2..Len(uri) : uri[i] = "PFX"
    THEN IdError(f)
    ELSE from_id(Tail(uri), f)

starts_with_prefix(str) == str # << >> /\ Head(str) = "PFX"

\* Lines 566-568: split('/').last(), the text after the last '/'.
LastSegment(str) ==
  LET slashes == {i \in 1..Len(str) : str[i] = "/"}
  IN  IF slashes = {} THEN str
      ELSE SubSeq(str, (CHOOSE i \in slashes : \A j \in slashes : j <= i) + 1,
                  Len(str))

\* Lines 569-570: split('?').next(), the text before the first '?'.
BeforeQuery(str) ==
  LET marks == {i \in 1..Len(str) : str[i] = "?"}
  IN  IF marks = {} THEN str
      ELSE SubSeq(str, 1, (CHOOSE i \in marks : \A j \in marks : i <= j) - 1)

clean_id(str) == BeforeQuery(LastSegment(str))

\* Fault: parse_track_id without its first branch.
parse_track_id_nouri(str) ==
  IF len(str) = IdLen /\ \A i \in 1..Len(str) : is_alphanumeric(str[i])
    THEN from_id(str, "id")
    ELSE from_id(clean_id(str), "url")

\* parse_track_id, lines 556-577.
parse_track_id(str) ==
  IF starts_with_prefix(str)
    THEN from_uri(str, "uri")
    ELSE IF len(str) = IdLen /\ \A i \in 1..Len(str) : is_alphanumeric(str[i])
      THEN from_id(str, "id")
      ELSE from_id(clean_id(str), "url")

\* The strings parse_track_id is given.
InitParse ==
  /\ mpc = "ctor"
  /\ file = None
  /\ session = None
  /\ st = StInit
  /\ verification_delay_ms = NewDelayMs
  /\ max_verification_attempts = NewMaxAttempts
  /\ lock = None
  /\ waitq = << >>
  /\ tpc = NoTasks
  /\ kind = NoKinds
  /\ eng = NoEng
  /\ res = NoRes
  /\ expired = FALSE
  /\ track_id_str \in TrackIdStrs
  /\ track_id = NotParsed
  /\ reads = << >>
  /\ verified = [liked |-> NotVerified, unliked |-> NotVerified,
                 plain |-> NotVerified]
  /\ polled = << >>
  /\ last_track_id = None
  /\ tray = << >>

ParseTrackId ==
  /\ track_id = NotParsed
  /\ track_id' = parse_track_id(track_id_str)
  /\ UNCHANGED << track_id_str, reads, verified, polled, last_track_id, tray,
                  mpc, file, session, st, ConfigVars, TaskVars, expired >>

SpecParse == InitParse /\ [][ParseTrackId]_vars

(* ------------------------------------------------------------------ *)
(* verify_track_liked and verify_track_unliked, each on its own        *)
(* ------------------------------------------------------------------ *)

\* Longest verification run on a given sequence of answers.
MaxVerifyAttempts == 3

\* What current_user_saved_tracks_contains (or the token check before it)
\* gives is_track_liked: an Err, or Ok with a vector of booleans, one for
\* each id asked for; the remote may answer with none or with more.
ContainsErr == [ok |-> FALSE, v |-> << >>]
ContainsOk(v) == [ok |-> TRUE, v |-> v]
Responses ==
  {ContainsErr} \cup
  {ContainsOk(v) : v \in {<< >>, << TRUE >>, << FALSE >>,
                          << TRUE, FALSE >>, << FALSE, TRUE >>}}

\* Fault: an empty answer is taken for liked.
is_track_liked_empty(resp) ==
  IF ~resp.ok THEN "E"
  ELSE IF resp.v = << >> \/ resp.v[1] THEN "T" ELSE "F"

\* is_track_liked, lines 399-413: the Err is passed on with `?`; the
\* result is is_saved.first() == Some(&true).
is_track_liked(resp) ==
  IF ~resp.ok THEN "E"
  ELSE IF resp.v # << >> /\ resp.v[1] THEN "T" ELSE "F"

\* The responses behind the calls of is_track_liked of a verification: the
\* first is that of the check before the loop, the one after it that of
\* attempt 1, and so on.
ReadSeqs == [1..(MaxVerifyAttempts + 1) -> Responses]

\* What is_track_liked makes of each.
Answers(rs) == [i \in 1..Len(rs) |-> is_track_liked(rs[i])]

\* Ok(true) for Ok(false) and back; an Err stays an Err.
Negated(rs) ==
  [i \in 1..Len(rs) |-> IF rs[i] = "T" THEN "F" ELSE IF rs[i] = "F" THEN "T" ELSE rs[i]]

VerificationResult(ok, n, c) == [success |-> ok, attempts |-> n, corr |-> c]

\* verify_track_liked, lines 439-482: the loop from one attempt on; c is
\* the set of attempts at which current_user_saved_tracks_add was sent again.
RECURSIVE liked_attempts(_, _, _, _)
liked_attempts(rs, max, attempt, c) ==
  IF attempt > max THEN VerificationResult(FALSE, max, c)
  ELSE IF rs[attempt + 1] = "T" THEN VerificationResult(TRUE, attempt, c)
  ELSE IF rs[attempt + 1] = "F" /\ CorrectiveDue(attempt, max)
    THEN liked_attempts(rs, max, attempt + 1, c \cup {attempt})
    ELSE liked_attempts(rs, max, attempt + 1, c)

\* verify_track_liked, lines 416-483.
verify_track_liked(rs, max) ==
  IF rs[1] = "T" THEN VerificationResult(TRUE, 0, {})
  ELSE liked_attempts(rs, max, 1, {})

\* verify_track_unliked, lines 509-552: the loop from one attempt on; c is
\* the set of attempts at which current_user_saved_tracks_delete was sent
\* again.
RECURSIVE unliked_attempts(_, _, _, _)
unliked_attempts(rs, max, attempt, c) ==
  IF attempt > max THEN VerificationResult(FALSE, max, c)
  ELSE IF rs[attempt + 1] = "F" THEN VerificationResult(TRUE, attempt, c)
  ELSE IF rs[attempt + 1] = "T" /\ CorrectiveDue(attempt, max)
    THEN unliked_attempts(rs, max, attempt + 1, c \cup {attempt})
    ELSE unliked_attempts(rs, max, attempt + 1, c)

\* Fault: verify_track_unliked waits for Ok(true), as a copy of
\* verify_track_liked that was never turned around.
verify_track_unliked_copied(rs, max) == verify_track_liked(rs, max)

\* verify_track_unliked, lines 486-553.
verify_track_unliked(rs, max) ==
  IF rs[1] = "F" THEN VerificationResult(TRUE, 0, {})
  ELSE unliked_attempts(rs, max, 1, {})

\* The sequences of answers and the numbers of attempts (at least 2, so
\* that max - 2 is a u32) the two verifications are run on.
InitVerify ==
  /\ mpc = "ctor"
  /\ file = None
  /\ session = None
  /\ st = StInit
  /\ verification_delay_ms = NewDelayMs
  /\ max_verification_attempts \in CorrectiveWindow..MaxVerifyAttempts
  /\ lock = None
  /\ waitq = << >>
  /\ tpc = NoTasks
  /\ kind = NoKinds
  /\ eng = NoEng
  /\ res = NoRes
  /\ expired = FALSE
  /\ track_id_str = << >>
  /\ track_id = NotParsed
  /\ reads \in ReadSeqs
  /\ verified = [liked |-> NotVerified, unliked |-> NotVerified,
                 plain |-> NotVerified]
  /\ polled = << >>
  /\ last_track_id = None
  /\ tray = << >>

\* verify_track_liked run on the answers as they are.
VerifyLikedPlain ==
  /\ verified.plain = NotVerified
  /\ verified' = [verified EXCEPT !.plain =
                    verify_track_liked(Answers(reads), max_verification_attempts)]
  /\ UNCHANGED << track_id_str, track_id, reads, polled, last_track_id, tray,
                  mpc, file, session, st, ConfigVars, TaskVars, expired >>

\* verify_track_liked run on the negated answers.
VerifyLiked ==
  /\ verified.liked = NotVerified
  /\ verified' = [verified EXCEPT !.liked =
                    verify_track_liked(Negated(Answers(reads)),
                                       max_verification_attempts)]
  /\ UNCHANGED << track_id_str, track_id, reads, polled, last_track_id, tray,
                  mpc, file, session, st, ConfigVars, TaskVars, expired >>

\* verify_track_unliked run on the answers.
VerifyUnliked ==
  /\ verified.unliked = NotVerified
  /\ verified' = [verified EXCEPT !.unliked =
                    verify_track_unliked(Answers(reads),
                                         max_verification_attempts)]
  /\ UNCHANGED << track_id_str, track_id, reads, polled, last_track_id, tray,
                  mpc, file, session, st, ConfigVars, TaskVars, expired >>

NextVerify == VerifyLiked \/ VerifyUnliked \/ VerifyLikedPlain

SpecVerify == InitVerify /\ [][NextVerify]_vars

(* ------------------------------------------------------------------ *)
(* The poller's loop body, on its own                                  *)
(* ------------------------------------------------------------------ *)

\* How many polls are followed.
MaxPolls == 4

\* The ids of the tracks that play.
TrackIds == {"A", "B"}

\* What get_current_track gives a poll: Err (the token check or
\* current_playing failed, nothing plays, the item is no track), a track
\* without an id, or a track with its id.
PollResults == {"err", "nothing", "notTrack", "noId"} \cup TrackIds

\* The text of the menu item before any message (main.rs, line 98) and the
\* text sent when there is no track (line 204).
NoTrackPlaying == "No track playing"

\* Line 193: format!("{} - {}", name, artist); a track is told by its id.
TrackDisplay(id) == id

\* Lines 189-206: the new last_track_id after a poll that gave c.
LastAfterPoll(last, c) ==
  IF c \in {"err", "nothing", "notTrack"} THEN None
  ELSE IF c = "noId" THEN last
  ELSE Some(c)

\* Lines 189-206: the messages sent by a poll that gave c.
SentByPoll(last, c) ==
  IF c \in {"err", "nothing", "notTrack"}
    THEN IF last # None THEN << NoTrackPlaying >> ELSE << >>
  ELSE IF c = "noId" THEN << >>
  ELSE IF Some(c) # last THEN << TrackDisplay(c) >> ELSE << >>

InitPoller ==
  /\ mpc = "ctor"
  /\ file = None
  /\ session = None
  /\ st = StInit
  /\ verification_delay_ms = NewDelayMs
  /\ max_verification_attempts = NewMaxAttempts
  /\ lock = None
  /\ waitq = << >>
  /\ tpc = NoTasks
  /\ kind = NoKinds
  /\ eng = NoEng
  /\ res = NoRes
  /\ expired = FALSE
  /\ track_id_str = << >>
  /\ track_id = NotParsed
  /\ reads = << >>
  /\ verified = [liked |-> NotVerified, unliked |-> NotVerified,
                 plain |-> NotVerified]
  /\ polled = << >>
  /\ last_track_id = None
  /\ tray = << >>

\* main, lines 183-207: one turn of the poller's loop.
Poll ==
  /\ Len(polled) < MaxPolls
  /\ \E c \in PollResults :
       /\ polled' = Append(polled, c)
       /\ last_track_id' = LastAfterPoll(last_track_id, c)
       /\ tray' = tray \o SentByPoll(last_track_id, c)
  /\ UNCHANGED << track_id_str, track_id, reads, verified, mpc, file, session,
                  st, ConfigVars, TaskVars, expired >>

SpecPoller == InitPoller /\ [][Poll]_vars

\* How many times clear_token_cache is called before one start-up.
MaxClears == 2

\* Fault: clear_token_cache without the exists() test of line 596, so that
\* remove_file is called on an absent file and fails.
ClearOutcome_noexists(pathOk, f, rmOk) ==
  IF ~pathOk THEN "err_path"
  ELSE IF f # None /\ rmOk THEN "ok" ELSE "err_remove"

\* clear_token_cache, lines 594-604: Err when get_token_cache_path fails
\* or when remove_file of an existing file fails; Ok otherwise, also when
\* there was no file.
ClearOutcome(pathOk, f, rmOk) ==
  IF ~pathOk THEN "err_path"
  ELSE IF f = None THEN "ok"
  ELSE IF rmOk THEN "ok" ELSE "err_remove"

\* The cache file after clear_token_cache: gone when remove_file ran and
\* succeeded.
FileAfterClear(pathOk, f, rmOk) ==
  IF pathOk /\ f # None /\ rmOk THEN None ELSE f

\* clear_token_cache is an associated function without a manager: its
\* caller runs it before the manager is constructed ("force
\* re-authentication on next use"). st.cleared keeps, for each call, whether
\* a file existed and what the call returned.
ClearTokenCache ==
  /\ mpc = "ctor"
  /\ Len(st.cleared) < MaxClears
  /\ \E pathOk \in BOOLEAN, rmOk \in BOOLEAN :
       /\ file' = FileAfterClear(pathOk, file, rmOk)
       /\ st' = [st EXCEPT !.cleared =
                   Append(@, [had |-> file # None,
                              out |-> ClearOutcome(pathOk, file, rmOk)])]
  /\ UNCHANGED << PureVars, mpc, expired, session, ConfigVars, TaskVars >>

Next ==
  \/ Construct
  \/ ReadTokenCache
  \/ ProbeToken
  \/ RefreshAtStartup
  \/ SaveRefreshed
  \/ BeginInteractive
  \/ PasteRedirect
  \/ ExchangeCode
  \/ PersistExchanged
  \/ Run
  \/ Quit
  \/ Restart
  \/ \E h \in Handlers, m \in Messages : Spawn(h, m)
  \/ \E t \in Tasks : LockManager(t)
  \/ \E t \in Tasks : EnsureFirst(t)
  \/ \E t \in Tasks : EnsureCurrent(t)
  \/ \E t \in Tasks : CurrentPlaying(t)
  \/ \E t \in Tasks : InitialWrite(t)
  \/ \E t \in Tasks : PreflightEnsure(t)
  \/ \E t \in Tasks : PreflightRead(t)
  \/ \E t \in Tasks : Sleep(t)
  \/ \E t \in Tasks : LoopEnsure(t)
  \/ \E t \in Tasks : LoopRead(t)
  \/ \E t \in Tasks : CorrectiveWrite(t)
  \/ \E t \in Tasks : Conclude(t)
  \/ \E t \in Tasks : Finish(t)

Spec == Init /\ [][Next]_vars

\* Longest verification of a caller that gives with_config its own numbers.
MaxCustomAttempts == 2

\* with_config (lines 53-92) called with any max_verification_attempts; no
\* line of it looks at the value.
WithConfig ==
  /\ mpc = "ctor"
  /\ \E m \in 0..MaxCustomAttempts, pathOk \in BOOLEAN :
       /\ verification_delay_ms' = NewDelayMs
       /\ max_verification_attempts' = m
       /\ IF pathOk
            THEN /\ mpc' = "load"
                 /\ st' = [st EXCEPT !.ctor = "custom", !.atStart = file]
            ELSE /\ mpc' = "exited"
                 /\ st' = StartFailed([st EXCEPT !.ctor = "custom",
                                                 !.atStart = file])
  /\ UNCHANGED << PureVars, expired, file, session, TaskVars >>

\* A handler task that panicked unwinds: its guard is dropped, its
\* notification is never sent.
Unwind(t) ==
  /\ tpc[t] = "panicked"
  /\ Finished(t, "panic")
  /\ UNCHANGED << PureVars, expired, mpc, file, session, st, ConfigVars, lock,
                  waitq, kind, eng >>

NextConfig ==
  \/ Next
  \/ WithConfig
  \/ \E t \in Tasks : Unwind(t)

SpecConfig == Init /\ [][NextConfig]_vars

\* The start-up of a program that may clear the token cache before it
\* constructs the manager.
NextStore ==
  \/ ClearTokenCache
  \/ Construct
  \/ ReadTokenCache
  \/ ProbeToken
  \/ RefreshAtStartup
  \/ SaveRefreshed
  \/ BeginInteractive
  \/ PasteRedirect
  \/ ExchangeCode
  \/ PersistExchanged
  \/ Restart

SpecStore == Init /\ [][NextStore]_vars

\* The steps of task t: its wait for the mutex and every statement of its
\* call on the manager.
TaskStep(t) ==
  \/ LockManager(t) \/ EnsureFirst(t) \/ EnsureCurrent(t) \/ CurrentPlaying(t)
  \/ InitialWrite(t) \/ PreflightEnsure(t) \/ PreflightRead(t) \/ Sleep(t)
  \/ LoopEnsure(t) \/ LoopRead(t) \/ CorrectiveWrite(t) \/ Conclude(t)
  \/ Finish(t)

\* The program under a runtime that keeps polling every spawned task whose
\* await can complete (tokio), with every remote call and sleep returning.
FairSpec == Spec /\ \A t \in Tasks : WF_vars(TaskStep(t))

\* The program with token expiry made visible.
NextClock == Next \/ Expire

SpecClock == Init /\ [][NextClock]_vars

(* ------------------------------------------------------------------ *)
(* Properties                                                          *)
(* ------------------------------------------------------------------ *)

\* Positions at which a task is inside its call on the manager.
EnginePcs == {"pre_ev", "pre_call", "sleep", "read_ev", "read_call", "corr"}
RemotePcs == {"ev1", "ev2", "cur", "write", "ret", "done"} \cup EnginePcs
\* Positions between an ensure_token_valid that returned Ok and the API
\* call it guards.
CheckedPcs == {"cur", "pre_call", "read_call"}

MutationTasks == {t \in Handlers : kind[t] \in Mutations}

\* This start-up loaded, from the cache, the complete token that an
\* interactive authentication of an earlier run exchanged and stored.
LoadedExchangedToken ==
  /\ st.loaded # None
  /\ st.loaded[1].origin = "exchange"
  /\ st.loaded[1].ref = "ok"

C2_SuccessOnlyIfReadBack ==
  \A t \in MutationTasks :
    tpc[t] = "done" =>
      /\ res[t] = "ok" =>
           eng[t].returned /\ eng[t].desiredAt >= 0 /\ eng[t].nWrites >= 1
      /\ eng[t].returned /\ eng[t].desiredAt < 0 => res[t] = "err_verify"

C2_Witness ==
  \E t \in MutationTasks :
    tpc[t] = "done" /\ res[t] = "ok" /\ eng[t].desiredAt >= 1

\* C3: a task is inside its call on the manager only while it holds the
\* mutex, so at most one task is; and while a task stands between a token
\* check and the call it guards, the client's token does not change.
OnlyHolderRuns == \A t \in Tasks : tpc[t] \in RemotePcs => lock = Some(t)

NoForeignRefresh ==
  \A u \in Tasks :
    tpc[u] \in CheckedPcs /\ tpc'[u] = tpc[u] => session' = session

C3_ExclusiveSession == []OnlyHolderRuns /\ [][NoForeignRefresh]_vars

C3_Witness ==
  \E t \in MutationTasks, u \in MutationTasks :
    /\ t # u
    /\ lock = Some(t)
    /\ tpc[t] = "read_call"
    /\ tpc[u] = "wait"
    /\ tpc[Poller] = "wait"

\* C4: when the first membership read reports the desired state, the
\* engine returns converged with attempts = 0, having slept never, read
\* once and written nothing but the action's own write.
C4_FirstReadConverges ==
  \A t \in MutationTasks :
    eng[t].desiredAt = 0 =>
      /\ tpc[t] \in {"ret", "done"}
      /\ eng[t].returned /\ eng[t].success /\ eng[t].attempts = 0
      /\ eng[t].nSleeps = 0 /\ eng[t].slept = 0
      /\ eng[t].nCalls = 1
      /\ eng[t].corr = {} /\ eng[t].nWrites = 1

C4_Witness ==
  \E t \in MutationTasks :
    eng[t].desiredAt = 0 /\ eng[t].lastRes = "F" /\ eng[t].returned

\* C5: with no read reporting the desired state (opposite answers or
\* failures alike) the engine makes all its max_attempts + 1 reads and
\* returns not converged with attempts = max_attempts; when it returns
\* converged, attempts is the index of the read that saw the desired state.
C5_OutcomeAttempts ==
  \A t \in MutationTasks :
    eng[t].returned =>
      /\ eng[t].desiredAt < 0 =>
           /\ ~eng[t].success
           /\ eng[t].attempts = max_verification_attempts
           /\ eng[t].nCalls = max_verification_attempts + 1
      /\ eng[t].success =>
           /\ eng[t].desiredAt \in 0..max_verification_attempts
           /\ eng[t].attempts = eng[t].desiredAt
           /\ eng[t].nCalls = eng[t].desiredAt + 1

C5_Witness ==
  \E t \in MutationTasks :
    /\ eng[t].returned /\ ~eng[t].success
    /\ eng[t].hist = "transient" /\ eng[t].lateOpp # {}

\* The final two attempts of the loop.
FinalTwo == {max_verification_attempts - 1, max_verification_attempts}

\* C6 (as amended): in a run in which no read reports the desired state, a
\* corrective write is issued at every one of the final two attempts whose
\* read returned the opposite state.
C6_CorrectiveAfterOppositeRead ==
  \A t \in MutationTasks :
    eng[t].returned /\ eng[t].desiredAt < 0 =>
      /\ eng[t].lateOpp \subseteq eng[t].corr
      /\ eng[t].lateOpp # {} => eng[t].corr \cap FinalTwo # {}

C6_Witness ==
  \E t \in MutationTasks :
    /\ eng[t].returned /\ eng[t].desiredAt < 0
    /\ eng[t].lateOpp = {max_verification_attempts}
    /\ eng[t].hist = "transient"

\* C6 (as claimed): every run in which no read reports the desired state,
\* failed reads included, issues a corrective write during the final two
\* attempts.
C6_Original ==
  \A t \in MutationTasks :
    eng[t].returned /\ eng[t].desiredAt < 0 => eng[t].corr \cap FinalTwo # {}

\* No read of this run has failed so far.
NoReadFailed(t) == eng[t].hist = "clean"

\* C7 (as amended): when the reads report the opposite state for
\* max_attempts calls (the check before the loop and the first
\* max_attempts - 1 attempts) and the desired state on the next call, the
\* engine returns converged with attempts = max_attempts; in general
\* attempts is the number of calls that came before the converging one.
C7_FlipOnFinalRead ==
  \A t \in MutationTasks :
    eng[t].returned /\ NoReadFailed(t) /\ eng[t].desiredAt >= 0 =>
      /\ eng[t].success
      /\ eng[t].attempts = eng[t].nCalls - 1
      /\ eng[t].nCalls = max_verification_attempts + 1 =>
           eng[t].attempts = max_verification_attempts

C7_Witness ==
  \E t \in MutationTasks :
    /\ eng[t].returned /\ NoReadFailed(t) /\ eng[t].success
    /\ eng[t].nCalls = max_verification_attempts + 1

\* C7 (as claimed): opposite for max_attempts - 1 calls, desired on the
\* next (the call number max_attempts): attempts = max_attempts.
C7_Original ==
  \A t \in MutationTasks :
    /\ eng[t].returned /\ NoReadFailed(t) /\ eng[t].success
    /\ eng[t].nCalls = max_verification_attempts
    => eng[t].attempts = max_verification_attempts

\* How far a verification is from its return: every step of it comes
\* strictly closer.
Rank(pc, e) ==
  CASE pc = "pre_ev" -> 4 * max_verification_attempts + 6
    [] pc = "pre_call" -> 4 * max_verification_attempts + 5
    [] pc = "sleep" -> 4 * (max_verification_attempts - e.attempt) + 4
    [] pc = "read_ev" -> 4 * (max_verification_attempts - e.attempt) + 3
    [] pc = "read_call" -> 4 * (max_verification_attempts - e.attempt) + 2
    [] pc = "corr" -> 4 * (max_verification_attempts - e.attempt) + 1
    [] OTHER -> 0

EngineStep(t) ==
  \/ PreflightEnsure(t) \/ PreflightRead(t) \/ Sleep(t)
  \/ LoopEnsure(t) \/ LoopRead(t) \/ CorrectiveWrite(t)

EngineBounded ==
  \A t \in MutationTasks :
    /\ eng[t].nCalls <= max_verification_attempts + 1
    /\ eng[t].nSleeps <= max_verification_attempts
    /\ eng[t].attempt <= max_verification_attempts
    /\ tpc[t] \in EnginePcs => Rank(tpc[t], eng[t]) > 0 /\ ENABLED EngineStep(t)

EngineProgress ==
  \A t \in Tasks :
    tpc[t] \in EnginePcs /\ << tpc'[t], eng'[t] >> # << tpc[t], eng[t] >> =>
      \/ mpc' = "exited"
      \/ /\ tpc'[t] \in EnginePcs \cup {"ret"}
         /\ Rank(tpc'[t], eng'[t]) < Rank(tpc[t], eng[t])

\* C8: a verification makes at most max_attempts + 1 membership reads and
\* max_attempts sleeps; while it runs it always has a step to take, and
\* every step brings it strictly closer to its return.
C8_EngineTerminates == []EngineBounded /\ [][EngineProgress]_vars

C8_Witness ==
  \E t \in MutationTasks :
    /\ eng[t].returned
    /\ eng[t].nCalls = max_verification_attempts + 1
    /\ eng[t].nSleeps = max_verification_attempts
    /\ max_verification_attempts = NewMaxAttempts

\* C9 (as claimed): once a token check fails inside the verification, the
\* engine has stopped and the action ends with the authentication error.
C9_AuthErrorStopsEngine ==
  \A t \in MutationTasks :
    eng[t].hist = "auth" => tpc[t] = "done" /\ res[t] = "err_auth"

\* C10: a membership read that fails with a transient error does not end
\* the verification: the attempt is used up, the next attempt follows (or,
\* after the last, the exhausted outcome), and a later read of the desired
\* state still gives converged.
C10_ReadErrorConsumed ==
  \A t \in MutationTasks :
    /\ eng[t].lastRes = "E" /\ ~eng[t].returned =>
         /\ tpc[t] \in {"sleep", "read_ev", "read_call"}
         /\ eng[t].attempt =
              IF tpc[t] = "read_call" THEN eng[t].nCalls - 1 ELSE eng[t].nCalls
    /\ eng[t].lastRes = "E" /\ eng[t].returned =>
         /\ ~eng[t].success
         /\ eng[t].attempts = max_verification_attempts
         /\ eng[t].nCalls = max_verification_attempts + 1
    /\ eng[t].hist = "transient" /\ eng[t].returned /\ eng[t].desiredAt >= 0 =>
         eng[t].success
    /\ eng[t].hist = "transient" /\ tpc[t] = "done" =>
         res[t] \in {"ok", "err_verify"}

C10_Witness ==
  \E t \in MutationTasks :
    /\ eng[t].returned /\ eng[t].success
    /\ eng[t].hist = "transient" /\ eng[t].desiredAt = max_verification_attempts

(* ------------------------------------------------------------------ *)
(* Properties of the token lifecycle                                   *)
(* ------------------------------------------------------------------ *)

\* Positions at which a task's next step is ensure_token_valid, whose first
\* statement is the probe current_user() (line 275).
EnsurePcs == {"ev1", "ev2", "pre_ev", "read_ev"}

\* Task t runs ensure_token_valid in this step.
RunsEnsure(t) == tpc[t] \in EnsurePcs /\ tpc'[t] # tpc[t] /\ mpc' = "running"

C12_RefreshFailureReauthenticates ==
  \A t \in Tasks : tpc[t] = "done" => res[t] # "err_auth"

\* The match on read_token_cache (line 96) is decided.
CacheRead == st.loadRes # "unread"

\* The cache gave nothing usable: no token, an error, or a token without
\* an access token or without a non-empty refresh token.
NothingUsable ==
  \/ st.loadRes \in {"none", "err"}
  \/ st.loadRes = "some" /\ ~TokenComplete(st.loaded[1])

\* The client holds no token, or the one this start-up's exchange gave.
NoLoadedTokenInSession == session = None \/ session[1].origin = "exchange"

\* C13: a start-up whose cache read gives no token, an error or an
\* incomplete token goes to the interactive flow; that token is not
\* installed in the client, and no probe and no refresh is made with it.
C13_UnusableCacheGoesInteractive ==
  CacheRead /\ NothingUsable =>
    /\ mpc = "auth" \/ st.interactive
    /\ st.probe = "none" /\ st.refresh = "none" /\ st.nRefresh = 0
    /\ NoLoadedTokenInSession
    /\ mpc = "started" => st.exchange = "ok"

C13_Witness ==
  /\ st.loadRes = "some" /\ ~TokenComplete(st.loaded[1])
  /\ st.interactive /\ mpc = "paste"

C15_BadRedirectFailsBeforeExchange ==
  st.input \in {"notUrl", "noCode"} =>
    /\ mpc = "exited" /\ st.result = "err"
    /\ st.exchange = "none"
    /\ session = None \/ session = st.loaded
    /\ file = None /\ st.save = "none"

C15_Witness ==
  st.input = "noCode" /\ mpc = "exited" /\ st.atStart # None

\* C16: a start-up that went through the interactive flow returns ok only
\* with an exchanged token that has a non-empty refresh token and has been
\* written to the cache; an exchange whose token has no refresh token, or
\* an empty one, makes the flow fail, and nothing is written.
C16_AuthenticatedOnlyWithPersistedGrant ==
  /\ st.interactive /\ mpc = "started" =>
       /\ session # None
       /\ session[1].origin = "exchange" /\ session[1].ref = "ok"
       /\ file = session /\ st.save = "ok" /\ st.result = "ok"
  /\ st.exchange = "ok" /\ session[1].ref # "ok" =>
       /\ mpc = "exited" /\ st.result = "err"
       /\ file = None /\ st.save = "none"

C16_Witness ==
  st.exchange = "ok" /\ session[1].ref = "empty" /\ mpc = "exited"

AbortedByAuth(t) ==
  tpc[t] = "done" /\ res[t] = "err_auth" /\ tpc'[t] # "done" /\ mpc' = "running"

\* C18 (as claimed): after an action aborted by an authentication error,
\* the action that gets the manager next does not start with the ordinary
\* token check and its remote probe: it goes through the authentication
\* path first.
C18_ReauthAfterAuthError ==
  [][\A t \in Handlers : AbortedByAuth(t) =>
       \A u \in Handlers : lock' = Some(u) => tpc'[u] \notin EnsurePcs]_vars

\* Positions at which a task's next step is a remote call other than a
\* token check: current_playing, the contains of a membership read, the
\* action's write, a corrective write.
ApiPcs == {"cur", "pre_call", "read_call", "write", "corr"}

\* The position of the token check made for the call at position pc.
CheckOf(pc) ==
  CASE pc = "cur" -> "ev2"
    [] pc = "pre_call" -> "pre_ev"
    [] pc = "read_call" -> "read_ev"
    [] OTHER -> "none"

\* Task t comes to stand before the remote call of position pc.
ComesTo(t, pc) == tpc'[t] = pc /\ tpc[t] # pc

\* C19 (as amended): a task comes to the fetch of the current item, or to a
\* membership read, only from the token check made for that call; it comes
\* to the action's write only from the fetch of the current item, and to a
\* corrective write only from the membership read of the attempt, with no
\* token check of their own.
C19_CallsFollowChecks ==
  [][\A t \in Tasks :
       /\ \A pc \in CheckedPcs : ComesTo(t, pc) => tpc[t] = CheckOf(pc)
       /\ ComesTo(t, "write") => tpc[t] = "cur"
       /\ ComesTo(t, "corr") => tpc[t] = "read_call"]_vars

C19_Witness ==
  \E t \in MutationTasks :
    tpc[t] = "corr" /\ eng[t].nWrites = 1 /\ eng[t].lastRes = OppositeOf(kind[t])

\* C19 (as claimed): a task comes to any remote call, the writes included,
\* only from a token check of its own.
C19_Original ==
  [][\A t \in Tasks, pc \in ApiPcs : ComesTo(t, pc) => tpc[t] \in EnsurePcs]_vars

\* The tasks queued for the mutex.
Queued == {waitq[i] : i \in 1..Len(waitq)}

\* A task has a result exactly while its handler is about to show it; a
\* task that does not run its call does not hold the mutex; the tasks that
\* wait are the queued ones, and they wait only while some task holds it.
OneResultLockReleased ==
  /\ \A t \in Tasks :
       /\ res[t] # "none" <=> tpc[t] = "done"
       /\ lock = Some(t) => tpc[t] \in RemotePcs
       /\ tpc[t] = "wait" <=> t \in Queued
  /\ Queued # {} => lock # None

\* The end of the handler of a failed action leaves the process running
\* and the mutex free or with the task that queued first.
FailureIsLocal ==
  \A t \in Tasks :
    Finish(t) /\ res[t] # "ok" =>
      /\ mpc' = "running"
      /\ lock' # Some(t)
      /\ waitq # << >> => lock' = Some(Head(waitq))
      /\ waitq = << >> => lock' = None

\* A handler ends only from the point where it has its result, or because
\* the user quits.
EndsWithResult ==
  \A h \in Handlers :
    tpc[h] # "idle" /\ tpc'[h] = "idle" => tpc[h] = "done" \/ mpc' = "exited"

\* C20: every triggered action comes to its end (its handler idle again,
\* the mutex given up), and it ends with its one result unless the user
\* quits first; a failed action leaves the process running and the mutex to
\* whoever is next, and the poller gets the mutex whenever it waits for it.
C20_ActionsFinishAndRelease ==
  /\ []OneResultLockReleased
  /\ [][FailureIsLocal /\ EndsWithResult]_vars
  /\ \A h \in Handlers : (tpc[h] = "spawned") ~> (tpc[h] = "idle")
  /\ (tpc[Poller] = "wait") ~> (lock = Some(Poller) \/ mpc # "running")

C20_Witness ==
  \E t \in MutationTasks, u \in Handlers :
    /\ tpc[t] = "done" /\ res[t] = "err_verify"
    /\ tpc[u] = "wait" /\ tpc[Poller] = "wait"

\* ---------------------------------------------------------------------
\* The interactive flow and the session lock
\* ---------------------------------------------------------------------

\* The positions of authenticate_first_time (lines 165-255).
InteractivePcs == {"auth", "paste", "exchange", "persist"}

\* C21: the interactive flow runs only in main's start-up, which is one
\* thread: while it is in progress the mutex is free, nobody waits for it
\* and no poller or handler exists; once tasks run, no flow is in progress.
C21_InteractiveOnlyBeforeTasks ==
  /\ mpc \in InteractivePcs =>
       /\ lock = None
       /\ waitq = << >>
       /\ \A t \in Tasks : tpc[t] = "idle"
  /\ (\E t \in Tasks : tpc[t] # "idle") =>
       mpc = "running" /\ ~st.interactive

C21_Witness ==
  mpc = "paste" /\ st.interactive /\ lock = None /\ \A t \in Tasks : tpc[t] = "idle"

\* ---------------------------------------------------------------------
\* Clearing the token cache
\* ---------------------------------------------------------------------

Clears == 1..Len(st.cleared)

\* C23: clearing is idempotent up to I/O failure. A clear fails only when
\* the cache path is unknown or an existing file cannot be removed; a clear
\* that finds no file succeeds; after a clear that succeeded the file is
\* gone, the next clear finds none and cannot fail in removal; and the
\* load of the start-up that follows a successful clear finds no token.
C23_ClearIdempotentUpToIO ==
  /\ \A i \in Clears :
       /\ st.cleared[i].out = "err_remove" => st.cleared[i].had
       /\ i > 1 /\ st.cleared[i - 1].out = "ok" =>
            ~st.cleared[i].had /\ st.cleared[i].out \in {"ok", "err_path"}
  /\ (\E i \in Clears : st.cleared[i].out = "ok") =>
       /\ mpc \in {"ctor", "load"} => file = None
       /\ st.ctor # "none" => st.atStart = None
       /\ CacheRead => st.loaded = None /\ st.loadRes \in {"none", "err"}

C23_Witness ==
  /\ Len(st.cleared) = 2
  /\ st.cleared[1] = [had |-> TRUE, out |-> "ok"]
  /\ st.cleared[2] = [had |-> FALSE, out |-> "ok"]
  /\ CacheRead
  /\ st.loaded = None

\* C23 as stated: every clear succeeds.
C23_Original == \A i \in Clears : st.cleared[i].out = "ok"

\* ---------------------------------------------------------------------
\* parse_track_id
\* ---------------------------------------------------------------------

Parsed == track_id # NotParsed

\* A Spotify id: 22 ASCII letters and digits.
IsId(s) == len(s) = IdLen /\ \A i \in 1..Len(s) : is_ascii_alphanumeric(s[i])

\* C24: a bare id comes back as it is, by the second branch; the URI of an
\* id gives the id, and every text that starts with the URI prefix is
\* handled by the first branch, never as a bare id or a URL.
C24_BareIdAndUri ==
  Parsed =>
    /\ IsId(track_id_str) =>
         track_id = [ok |-> TRUE, id |-> track_id_str, form |-> "id"]
    /\ starts_with_prefix(track_id_str) =>
         /\ track_id.form = "uri"
         /\ IsId(Tail(track_id_str)) =>
              track_id.ok /\ track_id.id = Tail(track_id_str)

C24_Witness ==
  /\ track_id_str = << "PFX", "AN21", "AN1" >>
  /\ track_id = [ok |-> TRUE, id |-> << "AN21", "AN1" >>, form |-> "uri"]

\* The text ends in /s or /s?query for an id s and is not a URI.
UrlOf(str, s) ==
  /\ ~starts_with_prefix(str)
  /\ \E i \in 1..Len(str) :
       /\ str[i] = "/"
       /\ \/ SubSeq(str, i + 1, Len(str)) = s
          \/ \E j \in (i + 1)..Len(str) :
               str[j] = "?" /\ SubSeq(str, i + 1, j - 1) = s

Ids == {s \in TrackIdStrs : IsId(s)}

Recognized(str) ==
  \/ starts_with_prefix(str) /\ IsId(Tail(str))
  \/ IsId(str)
  \/ \E s \in Ids : UrlOf(str, s)

\* C25: a sharing URL that ends in /s or /s?query gives s, and a text of
\* none of the three forms is refused.
C25_UrlsAndRejects ==
  Parsed =>
    /\ \A s \in Ids : UrlOf(track_id_str, s) => track_id.ok /\ track_id.id = s
    /\ ~Recognized(track_id_str) => ~track_id.ok

\* ---------------------------------------------------------------------
\* The engine's writes and sleeps
\* ---------------------------------------------------------------------

\* The attempts at which the code sends the write again.
LastThree ==
  {a \in 1..max_verification_attempts :
     a >= max_verification_attempts - CorrectiveWindow}

\* C26 (as amended): corrective writes happen only on the last three
\* attempts of the loop, once per attempt, so one run issues at most three.
C26_CorrectiveOnLastThree ==
  \A t \in MutationTasks :
    /\ eng[t].corr \subseteq LastThree
    /\ eng[t].wrote # "none" => eng[t].nWrites = 1 + Cardinality(eng[t].corr)
    /\ eng[t].nWrites <= 1 + CorrectiveWindow + 1

C26_Witness ==
  \E t \in MutationTasks :
    /\ eng[t].returned
    /\ max_verification_attempts = NewMaxAttempts
    /\ eng[t].corr = LastThree
    /\ eng[t].nWrites = 4

\* C26 (as claimed): corrective writes only on the last two attempts, at
\* most two in a run.
C26_Original ==
  \A t \in MutationTasks :
    eng[t].corr \subseteq FinalTwo /\ Cardinality(eng[t].corr) <= 2

\* The total of the first n sleeps of a run with base delay b.
Backoff(b, n) == n * b + StepDelayMs * ((n * (n - 1)) \div 2)

\* C27: the k-th sleep of a run is the sleep before attempt k and lasts
\* base + (k - 1) * 500 ms, so n sleeps last Backoff(base, n) in all; with
\* the default policy a run that does not converge has slept 22000 ms.
C27_ProgressiveBackoff ==
  \A t \in MutationTasks :
    /\ eng[t].slept = Backoff(verification_delay_ms, eng[t].nSleeps)
    /\ tpc[t] \in {"read_ev", "read_call", "corr"} =>
         eng[t].nSleeps = eng[t].attempt
    /\ tpc[t] = "sleep" => eng[t].nSleeps = eng[t].attempt - 1
    /\ eng[t].returned /\ ~eng[t].success =>
         /\ eng[t].nSleeps = max_verification_attempts
         /\ verification_delay_ms = 1000 /\ max_verification_attempts = 8 =>
              eng[t].slept = 22000

C27_Witness ==
  \E t \in MutationTasks :
    /\ eng[t].returned /\ ~eng[t].success
    /\ verification_delay_ms = NewDelayMs
    /\ eng[t].nSleeps = NewMaxAttempts
    /\ eng[t].slept = 22000

\* C28: the write of a like/unlike call comes before every membership
\* read and is the only write before the first one; when it fails the call
\* ends with the write's error, without a read, a sleep or another write.
C28_OneWriteBeforeFirstRead ==
  \A t \in MutationTasks :
    /\ tpc[t] \in {"ev1", "ev2", "cur", "write"} =>
         eng[t].wrote = "none" /\ eng[t].nWrites = 0 /\ eng[t].nCalls = 0
    /\ eng[t].nCalls >= 1 => eng[t].wrote = "ok"
    /\ tpc[t] \in {"pre_ev", "pre_call"} =>
         eng[t].wrote = "ok" /\ eng[t].nWrites = 1 /\ eng[t].nCalls <= 1
    /\ eng[t].wrote = "err" =>
         /\ tpc[t] = "done" /\ res[t] = "err_write"
         /\ eng[t].nWrites = 1 /\ eng[t].nCalls = 0 /\ eng[t].nSleeps = 0
         /\ ~eng[t].returned
    /\ res[t] = "err_write" => eng[t].wrote = "err"

C28_Witness ==
  \E t \in MutationTasks :
    eng[t].wrote = "err" /\ tpc[t] = "done" /\ eng[t].nCalls = 0

\* C29: a run in which a corrective write failed goes on as any other: it
\* is still in the loop or has returned, the attempt counter is the number
\* of sleeps taken, and what it returns is decided by its reads alone
\* (converged at the read that saw the desired state, or not converged
\* after max_attempts attempts).
C29_CorrectiveFailureIgnored ==
  \A t \in MutationTasks :
    eng[t].corrErr =>
      /\ tpc[t] \in {"sleep", "read_ev", "read_call", "corr", "ret", "done"}
      /\ res[t] \in {"none", "ok", "err_verify"}
      /\ ~eng[t].returned =>
           eng[t].nSleeps = IF tpc[t] = "sleep" THEN eng[t].attempt - 1
                            ELSE eng[t].attempt
      /\ eng[t].returned =>
           /\ eng[t].success = (eng[t].desiredAt >= 0)
           /\ eng[t].attempts = IF eng[t].success THEN eng[t].desiredAt
                                 ELSE max_verification_attempts
           /\ eng[t].nCalls = eng[t].attempts + 1

C29_Witness ==
  \E t \in MutationTasks :
    /\ eng[t].corrErr /\ eng[t].returned /\ eng[t].success
    /\ eng[t].attempts = max_verification_attempts

\* C30: when the engine returns, every corrective write it issued was
\* followed by a further membership read.
C30_CorrectiveWriteReadBack ==
  \A t \in MutationTasks :
    eng[t].returned => \A a \in eng[t].corr : eng[t].nCalls - 1 > a

\* ---------------------------------------------------------------------
\* Any number of attempts
\* ---------------------------------------------------------------------

\* C31: whatever max_verification_attempts is, no verification dies in the
\* test of the corrective window, the test is never reached with a
\* max - 2 below zero, and what the engine returns has
\* attempts <= max_verification_attempts.
C31_NoUnderflowAnyAttempts ==
  \A t \in MutationTasks :
    /\ tpc[t] # "panicked" /\ res[t] # "panic"
    /\ eng[t].nCalls >= 2 /\ tpc[t] # "read_call"
         /\ eng[t].lastRes = OppositeOf(kind[t]) =>
         ~Underflows(max_verification_attempts)
    /\ eng[t].returned => eng[t].attempts <= max_verification_attempts

\* ---------------------------------------------------------------------
\* Actions that find no track to act on
\* ---------------------------------------------------------------------

\* What current_playing gave when there is no track with a usable id.
NoUsableTrack == {"err", "nothing", "notTrack", "noId", "badId"}

\* C32: a like/unlike call that finds no track with a usable id ends with
\* an error and has sent no write and no membership read.
C32_NoTrackNoRemoteChange ==
  \A t \in MutationTasks :
    /\ eng[t].cur \in NoUsableTrack =>
         /\ tpc[t] = "done"
         /\ res[t] \in {"err_api", "err_notrack", "err_noid", "err_badid"}
         /\ eng[t].wrote = "none" /\ eng[t].nWrites = 0
         /\ eng[t].nCalls = 0 /\ eng[t].nSleeps = 0
    /\ eng[t].nWrites > 0 \/ eng[t].nCalls > 0 => eng[t].cur = "track"

C32_Witness ==
  \E t \in MutationTasks :
    /\ eng[t].cur = "badId" /\ tpc[t] = "done" /\ res[t] = "err_badid"
    /\ eng[t].nWrites = 0

\* ---------------------------------------------------------------------
\* The two verifications side by side
\* ---------------------------------------------------------------------

\* C33: verify_track_unliked on a sequence of answers and
\* verify_track_liked on the negated sequence return the same success,
\* the same attempts, and send their write again at the same attempts.
C33_UnlikedMirrorsLiked ==
  verified.liked # NotVerified /\ verified.unliked # NotVerified =>
    verified.liked = verified.unliked

C33_Witness ==
  /\ verified.liked # NotVerified
  /\ verified.unliked.success
  /\ verified.unliked.attempts = max_verification_attempts
  /\ verified.unliked.corr # {}

\* ---------------------------------------------------------------------
\* The order of actions
\* ---------------------------------------------------------------------

\* C34: actions run in the order their messages were sent: a handler comes
\* to the manager's lock, and so to its remote calls, only when the
\* handler of every earlier message has come to it.
C34_ActionsInSendOrder ==
  [][\A h \in Handlers :
       tpc[h] = "spawned" /\ tpc'[h] \notin {"spawned", "idle"} =>
         eng[h].behind = {}]_vars

\* Positions of a task that has not come to the manager.
OutsidePcs == {"idle", "spawned", "tick", "wait"}

\* C35: from its first ensure_token_valid to its result, sleeps included,
\* a like/unlike action holds the mutex, and every other task, the poller
\* among them, stands outside the manager: none of them makes a remote
\* call between the action's write and its result.
C35_LockHeldThroughAction ==
  \A t \in MutationTasks :
    tpc[t] \in RemotePcs =>
      /\ lock = Some(t)
      /\ \A i \in 1..Len(waitq) : waitq[i] # t
      /\ \A u \in Tasks \ {t} : tpc[u] \in OutsidePcs

C35_Witness ==
  \E t \in MutationTasks :
    /\ tpc[t] = "sleep" /\ eng[t].attempt >= 2 /\ eng[t].wrote = "ok"
    /\ lock = Some(t)
    /\ tpc[Poller] = "wait"

\* ---------------------------------------------------------------------
\* The cache and the client's token
\* ---------------------------------------------------------------------

\* ensure_authenticated returned Ok: the cache holds the client's token;
\* a start-up whose write of the cache failed has not returned Ok.
CacheMatchesAtStart ==
  /\ mpc = "started" =>
       /\ st.result = "ok" \/ st.probe = "ok"
       /\ session # None /\ file = session
       /\ st.save # "err"
  /\ st.save = "err" => mpc = "exited" /\ st.result = "err"

\* The step of task t is an ensure_token_valid that returned Ok.
EnsureOkStep(t) ==
  \/ tpc[t] = "ev1" /\ tpc'[t] = "ev2"
  \/ tpc[t] = "ev2" /\ tpc'[t] = "cur"
  \/ tpc[t] = "pre_ev" /\ tpc'[t] = "pre_call"
  \/ tpc[t] = "read_ev" /\ tpc'[t] = "read_call"

\* An ensure_token_valid that refreshed the token or wrote the cache
\* returns Ok exactly when the cache then holds the client's token; when it
\* returns Err it has left the cache as it was.
RefreshPersisted ==
  \A t \in Tasks :
    /\ tpc[t] \in EnsurePcs /\ tpc'[t] # tpc[t] /\ mpc' = "running"
    /\ session' # session \/ file' # file
    => /\ EnsureOkStep(t) <=> file' = session'
       /\ ~EnsureOkStep(t) => file' = file

\* C36: whenever the start-up, the interactive flow in it, or an
\* ensure_token_valid that refreshed returns Ok, the cache file holds the
\* token the client holds; where the write of the cache fails, Ok is not
\* returned.
C36_OkMeansPersisted == []CacheMatchesAtStart /\ [][RefreshPersisted]_vars

C36_Witness ==
  \E t \in MutationTasks :
    /\ tpc[t] = "pre_call" /\ eng[t].nCalls = 1
    /\ session # None /\ session[1].origin = "refresh"
    /\ file = session

\* ---------------------------------------------------------------------
\* The poller's messages
\* ---------------------------------------------------------------------

\* The text the menu item shows: that of the last message, or the one it
\* was made with.
TrayText == IF tray = << >> THEN NoTrackPlaying ELSE tray[Len(tray)]

\* C37: after a poll the menu item shows that poll's result, the track's
\* text when a track plays and "No track playing" otherwise (a track
\* without an id and a failed fetch included), and no message repeats the
\* one before it.
C37_TrayShowsLastPoll ==
  /\ polled # << >> =>
       TrayText = IF polled[Len(polled)] \in TrackIds
                    THEN TrackDisplay(polled[Len(polled)])
                    ELSE NoTrackPlaying
  /\ \A i \in 1..(Len(tray) - 1) : tray[i] # tray[i + 1]

\* ---------------------------------------------------------------------
\* The membership read
\* ---------------------------------------------------------------------

\* The response at index i (1: the check before the loop) is Ok and empty.
EmptyAt(i) == reads[i] = ContainsOk(<< >>)

\* C38: is_track_liked answers liked only for an Ok response whose first
\* element is true; an empty response is not liked, so verify_track_unliked
\* converges on it and verify_track_liked does not.
C38_EmptyResponseIsNotLiked ==
  /\ \A resp \in Responses :
       is_track_liked(resp) = "T" <=> resp.ok /\ resp.v # << >> /\ resp.v[1]
  /\ is_track_liked(ContainsOk(<< >>)) = "F"
  /\ verified.unliked # NotVerified /\ reads # << >> /\ EmptyAt(1) =>
       verified.unliked = VerificationResult(TRUE, 0, {})
  /\ verified.plain # NotVerified /\ reads # << >> =>
       /\ EmptyAt(1) => ~(verified.plain.success /\ verified.plain.attempts = 0)
       /\ verified.plain.success =>
            ~EmptyAt(verified.plain.attempts + 1)
       /\ (\A i \in 1..Len(reads) : EmptyAt(i)) =>
            /\ ~verified.plain.success
            /\ verified.plain.attempts = max_verification_attempts

C38_Witness ==
  /\ reads # << >>
  /\ \A i \in 1..Len(reads) : EmptyAt(i)
  /\ verified.unliked = VerificationResult(TRUE, 0, {})
  /\ verified.plain # NotVerified /\ ~verified.plain.success

====
